---- MODULE Spec2Model ----
(***************************************************************************)
(* Model of the bolt-os `uefi` crate: the Status word and its conversion   *)
(* to a Result, Guid and Tpl (src/src/lib.rs), the process-wide bootstrap  *)
(* slots (src/src/lib.rs), the BootServices wrappers for the memory map,   *)
(* the allocators, task priority, handle enumeration and protocol          *)
(* resolution (src/src/table/boot.rs), the configuration table             *)
(* (src/src/table/config.rs), and the text-output and graphics-output      *)
(* protocols (src/src/proto/console).                                      *)
(*                                                                         *)
(* The firmware behind the function-pointer table is not part of the       *)
(* crate.  It is modelled as a stub that follows the size-then-fill        *)
(* contract of spec.md section 4.3; its state changes only through the     *)
(* Fw... actions.                                                          *)
(***************************************************************************)
EXTENDS Integers, Sequences, FiniteSets, TLC

VARIABLES
    op,             \* name of the wrapper last entered ("none" at start)
    args,           \* its arguments
    ret,            \* its outcome: None (not returned yet), Ok, Err or Panic
    halted,         \* a panic has halted the program
    calls,          \* firmware calls made by the wrapper last entered
    SYSTEM_TABLE,   \* static SYSTEM_TABLE (0 is the null pointer)
    IMAGE_HANDLE,   \* static IMAGE_HANDLE (0 is the null pointer)
    bpc,            \* position inside bootstrap()
    bargs,          \* arguments of the bootstrap() call in progress
    nBootstrap,     \* number of bootstrap() calls entered so far
    revision,       \* BootServices.header.revision
    pc,             \* position inside handles_by_protocol / first_protocol
    buffer_size,    \* local of handles_by_protocol
    handles,        \* the Box<[Handle]> handed from handles_by_protocol to first_protocol, kept until the next wrapper call
    fwHandles,      \* firmware: handles implementing the identifier, in firmware order
    fwUnderReport,  \* firmware: bytes by which the size it reports to a probe falls short of whole handles (wrapping in usize)
    fwOverride,     \* firmware: <<status>> it fails every call with, <<>> when it works
    fwChanged,      \* the firmware state changed while the wrapper last entered was running
    fwMapCount,     \* firmware: number of descriptors in the memory map
    fwMapKey,       \* firmware: key of the current memory map
    fwExited,       \* firmware: boot services have been exited
    lastProbe,      \* MemoryMapInfo of the caller's last successful probe
    staleFill,      \* a get_memory_map on a buffer of the probed size has reported BUFFER_TOO_SMALL
    prevProbe,      \* <<result, firmware map>> of the probe before the last one, when both ran back to back
    fwPages,        \* firmware: set of allocated pages (page numbers)
    fwPool,         \* firmware: set of allocated pool buffers
    fwCount,        \* firmware: monotonic counter
    entries,        \* ConfigTable.entries: the configuration table, in firmware order
    fwTpl,          \* firmware: current task priority level
    tplBase,        \* task priority level at the start of the run
    tplBefore,      \* task priority level when the wrapper last entered was called
    tplSaved,       \* levels raise_tpl returned to the caller and the caller has not restored yet
    tplNested,      \* every restore_tpl so far restored the level saved last
    max_mode,       \* GraphicsOutput: Mode.max_mode, the number of modes
    fwInfoSize,     \* firmware: info size its QueryMode reports
    overflow_checks,\* the build panics on integer overflow (debug) or wraps (release)
    ipc,            \* all_modes iterator: "none" (not created), "live", or "done" once next() has returned None
    next_calls,     \* all_modes iterator: next() calls made on it so far
    current_mode,   \* all_modes iterator: captured current_mode
    iter_max_mode,  \* all_modes iterator: captured max_mode
    yielded         \* all_modes iterator: items returned so far

commonVars == <<op, args, ret, halted, calls>>
bootVars   == <<SYSTEM_TABLE, IMAGE_HANDLE, bpc, bargs, nBootstrap>>
protoVars  == <<revision, pc, buffer_size, handles, fwHandles, fwUnderReport>>
fwVars     == <<fwOverride, fwChanged>>
memVars    == <<fwMapCount, fwMapKey, fwExited, lastProbe, staleFill, prevProbe>>
svcVars    == <<fwPages, fwPool, fwCount>>
cfgVars    == <<entries>>
tplVars    == <<fwTpl, tplBase, tplBefore, tplSaved, tplNested>>
gopVars    == <<max_mode, fwInfoSize, overflow_checks, ipc, next_calls, current_mode, iter_max_mode, yielded>>
vars       == <<commonVars, bootVars, protoVars, fwVars, memVars, svcVars, cfgVars, tplVars, gopVars>>

----------------------------------------------------------------------------
(* Bounds of the model *)

MaxPayload    == 2    \* payloads handed to to_result are 0..MaxPayload
MaxCode       == 36   \* code values handed to new_error / new_warn are 0..MaxCode
MaxImages     == 2    \* image handles handed to bootstrap are 1..MaxImages
MaxTables     == 2    \* system-table pointers handed to bootstrap are 1..MaxTables
MaxBootstraps == 2    \* bootstrap() calls in one run
MaxHandles    == 2    \* firmware handles are 1..MaxHandles
MaxRecords    == 3    \* descriptors in the firmware's memory map
MaxMapKey     == 3    \* memory-map changes in one run
MaxPages      == 3    \* pages of memory the firmware allocates from
MaxBuffers    == 2    \* pool buffers the firmware hands out
MaxCount      == 2    \* readings of the monotonic counter in one run
MaxEntries    == 3    \* entries of the configuration table
MaxVendorTables == 2  \* vendor-table pointers are 1..MaxVendorTables
MaxNesting    == 2    \* raise_tpl calls outstanding at one time
MaxStrLen     == 3    \* code units in a string handed to the text output
MaxModes      == 2    \* graphics modes the firmware knows
MaxNext       == 5    \* next() calls on one iterator

----------------------------------------------------------------------------
(* Machine words.  usize is 64 bits wide; a word is kept as its most       *)
(* significant bit `hi` and its low 63 bits `lo`.                          *)

Word(n) == [hi |-> 0, lo |-> n]

RECURSIVE OrNat(_, _)
OrNat(a, b) ==
    IF a = 0 THEN b
    ELSE IF b = 0 THEN a
    ELSE (IF a % 2 = 1 \/ b % 2 = 1 THEN 1 ELSE 0) + 2 * OrNat(a \div 2, b \div 2)

BitOr(a, b) ==
    [hi |-> IF a.hi = 1 \/ b.hi = 1 THEN 1 ELSE 0, lo |-> OrNat(a.lo, b.lo)]

(* u32 is kept the same way: its most significant bit `hi` and its low 31   *)
(* bits `lo`.  The arithmetic returns the wrapped value and whether the     *)
(* operation overflowed.                                                    *)

U32_LOW_MAX == 2147483647

U32(n) == [hi |-> 0, lo |-> n]

U32_MAX == [hi |-> 1, lo |-> U32_LOW_MAX]

\* a - 1
u32_sub1(a) ==
    [overflow |-> (a = U32(0)),
     val |-> IF a = U32(0) THEN U32_MAX
             ELSE IF a.lo = 0 THEN [hi |-> 0, lo |-> U32_LOW_MAX]
             ELSE [a EXCEPT !.lo = @ - 1]]

\* a + 1
u32_add1(a) ==
    [overflow |-> (a = U32_MAX),
     val |-> IF a = U32_MAX THEN U32(0)
             ELSE IF a.lo = U32_LOW_MAX THEN [hi |-> 1, lo |-> 0]
             ELSE [a EXCEPT !.lo = @ + 1]]

\* a <= b
u32_le(a, b) == a.hi < b.hi \/ (a.hi = b.hi /\ a.lo <= b.lo)

\* a < b
u32_lt(a, b) == u32_le(a, b) /\ a # b

----------------------------------------------------------------------------
(* Status (src/src/lib.rs) *)

SUCCESS == Word(0)

HIGH_BIT == [hi |-> 1, lo |-> 0]

\* variant: the error flag is left out
new_error_nohigh(value) == value

new_error(value) == BitOr(HIGH_BIT, value)

\* variant: warnings carry the error flag
new_warn_high(value) == BitOr(HIGH_BIT, value)

new_warn(value) == value

ErrorCodeValues == (1..28) \cup (31..35)

WarningCodeValues == 1..7

INVALID_PARAMETER == new_error(Word(2))
UNSUPPORTED       == new_error(Word(3))
BUFFER_TOO_SMALL  == new_error(Word(5))
OUT_OF_RESOURCES  == new_error(Word(9))
NOT_FOUND         == new_error(Word(14))
WARN_STALE_DATA   == new_warn(Word(5))
WARN_UNKNOWN_GLYPH == new_warn(Word(1))

\* status_codes! { error_codes: ... }
ErrorCodeTable ==
    [LOAD_ERROR |-> 1, INVALID_PARAMETER |-> 2, UNSUPPORTED |-> 3,
     BAD_BUFFER_SIZE |-> 4, BUFFER_TOO_SMALL |-> 5, NOT_READY |-> 6,
     DEVICE_ERROR |-> 7, WRITE_PROTECTED |-> 8, OUT_OF_RESOURCES |-> 9,
     VOLUME_CORRUPTED |-> 10, VOLUME_FULL |-> 11, NO_MEDIA |-> 12,
     MEDIA_CHANGED |-> 13, NOT_FOUND |-> 14, ACCESS_DENIED |-> 15,
     NO_RESPONSE |-> 16, NO_MAPPING |-> 17, TIMEOUT |-> 18,
     NOT_STARTED |-> 19, ALREADY_STARTED |-> 20, ABORTED |-> 21,
     ICMP_ERROR |-> 22, TFTP_ERROR |-> 23, PROTOCOL_ERROR |-> 24,
     INCOMPATIBLE_ERROR |-> 25, SECURITY_VIOLATION |-> 26, CRC_ERROR |-> 27,
     END_OF_MEDIA |-> 28, END_OF_FILE |-> 31, INVALID_LANGUAGE |-> 32,
     COMPROMISED_DATA |-> 33, IP_ADDRESS_CONFLICT |-> 34, HTTP_ERROR |-> 35]

\* status_codes! { ... warning_codes: ... }
WarningCodeTable ==
    [WARN_UNKNOWN_GLYPH |-> 1, WARN_DELETE_FAILURE |-> 2, WARN_WRITE_FAILURE |-> 3,
     WARN_BUFFER_TOO_SMALL |-> 4, WARN_STALE_DATA |-> 5, WARN_FILE_SYSTEM |-> 6,
     WARN_RESET_REQUESTED |-> 7]

ErrorNames == DOMAIN ErrorCodeTable

WarningNames == DOMAIN WarningCodeTable

\* variant: the macro keeps the low four bits of a code
status_codes_mod16(name) ==
    IF name \in ErrorNames THEN new_error(Word(ErrorCodeTable[name] % 16))
    ELSE IF name \in WarningNames THEN new_warn(Word(WarningCodeTable[name] % 16))
    ELSE SUCCESS

\* the constant Status::<name> as the macro defines it
status_codes(name) ==
    IF name \in ErrorNames THEN new_error(Word(ErrorCodeTable[name]))
    ELSE IF name \in WarningNames THEN new_warn(Word(WarningCodeTable[name]))
    ELSE SUCCESS

NamedErrors   == { new_error(Word(c)) : c \in ErrorCodeValues }
NamedWarnings == { new_warn(Word(c)) : c \in WarningCodeValues }

(* Tpl (src/src/lib.rs) *)

APPLICATION == 4
CALLBACK    == 8
NOTIFY      == 16
HIGH_LEVEL  == 31

Tpls == {APPLICATION, CALLBACK, NOTIFY, HIGH_LEVEL}

\* size_of::<ModeInfo>(): nine 32-bit fields (src/src/proto/console/gop.rs)
SIZE_OF_MODE_INFO == 36

(* Result<T>, the halt of a panic, and a plain value *)
Ok(v)  == [kind |-> "Ok", val |-> v]
Err(s) == [kind |-> "Err", status |-> s]
Panic  == [kind |-> "Panic"]
None   == [kind |-> "None"]
Val(v) == [kind |-> "Val", val |-> v]

Unit == "()"

to_result_warn_ok(self, ok) ==
    IF self.hi = 0 THEN Ok(ok) ELSE Err(self)

to_result(self, ok) ==
    IF self = SUCCESS THEN Ok(ok) ELSE Err(self)

\* `?` on a Result<()>: the error is returned, success continues with `next`
Try(r, next) == IF r.kind = "Err" THEN r ELSE next

----------------------------------------------------------------------------
(* Initial values *)

NULL == 0

\* fwOverride is <<>> (none) or <<status>>
NoOverride == <<>>

NoProbe == [buffer_size |-> 0, descriptor_version |-> 0, descriptor_size |-> 0, map_key |-> 0]

InitCommon ==
    /\ op = "none"
    /\ args = <<>>
    /\ ret = None
    /\ halted = FALSE
    /\ calls = <<>>

InitBoot ==
    /\ SYSTEM_TABLE = NULL
    /\ IMAGE_HANDLE = NULL
    /\ bpc = "idle"
    /\ bargs = [image |-> NULL, system_table |-> NULL]
    /\ nBootstrap = 0

InitProto ==
    /\ pc = "idle"
    /\ buffer_size = 0
    /\ handles = <<>>
    /\ fwHandles = <<>>

InitFw ==
    /\ fwOverride = NoOverride
    /\ fwChanged = FALSE

InitMem ==
    /\ fwMapCount = 1
    /\ fwMapKey = 1
    /\ fwExited = FALSE
    /\ lastProbe = NoProbe
    /\ staleFill = FALSE
    /\ prevProbe = <<>>

InitSvc ==
    /\ fwPages = {}
    /\ fwPool = {}
    /\ fwCount = 0

InitCfg ==
    /\ entries = <<>>

\* no raise_tpl is outstanding and the firmware runs at level `base`
InitTplAt(base) ==
    /\ fwTpl = base
    /\ tplBase = base
    /\ tplBefore = base
    /\ tplSaved = <<>>
    /\ tplNested = TRUE

InitTpl == InitTplAt(APPLICATION)

\* the build wraps on integer overflow
InitBuild == overflow_checks = FALSE

InitGop ==
    /\ max_mode = U32(1)
    /\ fwInfoSize = SIZE_OF_MODE_INFO
    /\ ipc = "none"
    /\ next_calls = 0
    /\ current_mode = U32(0)
    /\ iter_max_mode = U32(0)
    /\ yielded = <<>>

\* the wrapper last entered has returned or halted, and the firmware state is
\* the one it ran against
Settled(name) == op = name /\ pc = "idle" /\ ~fwChanged

\* A wrapper that runs in one step returns r: a panic halts the program.
Return(name, a, r, fwcalls) ==
    /\ op' = name
    /\ args' = a
    /\ ret' = r
    /\ halted' = (r.kind = "Panic")
    /\ calls' = fwcalls

----------------------------------------------------------------------------
(* Status::to_result applied to a status and a payload *)

StatusInputs ==
    {SUCCESS, HIGH_BIT, Word(100)} \cup NamedErrors \cup NamedWarnings

ToResult(s, v) ==
    /\ ~halted
    /\ Return("to_result", [self |-> s, ok |-> v], to_result(s, v), <<>>)
    /\ UNCHANGED <<bootVars, protoVars, fwVars, memVars, svcVars, cfgVars, tplVars, gopVars>>

\* code values handed to the constructors: small codes, and the same codes
\* with the most significant bit of the word set
CodeInputs == { [hi |-> h, lo |-> n] : h \in {0, 1}, n \in 0..MaxCode }

\* Status::new_error and Status::new_warn applied to one code value
NewStatus(value) ==
    /\ ~halted
    /\ Return("new_status", [value |-> value],
              Val([error |-> new_error(value), warn |-> new_warn(value)]), <<>>)
    /\ UNCHANGED <<bootVars, protoVars, fwVars, memVars, svcVars, cfgVars, tplVars, gopVars>>

StatusNames == ErrorNames \cup WarningNames \cup {"SUCCESS"}

\* a named constant of Status is read
StatusConst(name) ==
    /\ ~halted
    /\ Return("status_const", [name |-> name], Val(status_codes(name)), <<>>)
    /\ UNCHANGED <<bootVars, protoVars, fwVars, memVars, svcVars, cfgVars, tplVars, gopVars>>

InitStatus ==
    /\ InitCommon /\ InitBoot /\ InitProto /\ InitFw /\ InitMem /\ InitSvc /\ InitCfg /\ InitTpl /\ InitGop /\ InitBuild
    /\ revision = 0
    /\ fwUnderReport = 0

NextStatus ==
    \/ \E s \in StatusInputs, v \in 0..MaxPayload : ToResult(s, v)
    \/ \E value \in CodeInputs : NewStatus(value)
    \/ \E name \in StatusNames : StatusConst(name)

SpecStatus == InitStatus /\ [][NextStatus]_vars

----------------------------------------------------------------------------
(* Bootstrap state (src/src/lib.rs) *)

ImageHandles == 1..MaxImages

TablePtrs == 1..MaxTables

\* variant: the table pointer is stored first, the image handle second
BootstrapStoreImage_tablefirst(image, table) ==
    /\ ~halted
    /\ bpc = "idle"
    /\ nBootstrap < MaxBootstraps
    /\ SYSTEM_TABLE' = table
    /\ bargs' = [image |-> image, system_table |-> table]
    /\ bpc' = "store_table"
    /\ nBootstrap' = nBootstrap + 1
    /\ UNCHANGED <<IMAGE_HANDLE, commonVars, protoVars, fwVars, memVars, svcVars, cfgVars, tplVars, gopVars>>

\* bootstrap(): IMAGE_HANDLE.store(image.0.as_ptr(), Release)
BootstrapStoreImage(image, table) ==
    /\ ~halted
    /\ bpc = "idle"
    /\ nBootstrap < MaxBootstraps
    /\ IMAGE_HANDLE' = image
    /\ bargs' = [image |-> image, system_table |-> table]
    /\ bpc' = "store_table"
    /\ nBootstrap' = nBootstrap + 1
    /\ UNCHANGED <<SYSTEM_TABLE, commonVars, protoVars, fwVars, memVars, svcVars, cfgVars, tplVars, gopVars>>

\* bootstrap(): SYSTEM_TABLE.store(system_table, Release)
BootstrapStoreTable ==
    /\ ~halted
    /\ bpc = "store_table"
    /\ SYSTEM_TABLE' = bargs.system_table
    /\ bpc' = "idle"
    /\ UNCHANGED <<IMAGE_HANDLE, bargs, nBootstrap, commonVars, protoVars, fwVars, memVars, svcVars, cfgVars, tplVars, gopVars>>

system_table_unchecked == Ok(SYSTEM_TABLE)

system_table ==
    IF SYSTEM_TABLE = NULL THEN Panic ELSE Ok(SYSTEM_TABLE)

image_handle ==
    IF IMAGE_HANDLE = NULL THEN Panic ELSE Ok(IMAGE_HANDLE)

\* SystemTable::boot_services: the table's boot_services field
SystemTable_boot_services(t) == [table |-> t, field |-> "boot_services"]

boot_services ==
    IF system_table.kind = "Panic" THEN Panic
    ELSE Ok(SystemTable_boot_services(system_table.val))

SystemTableCall ==
    /\ ~halted
    /\ Return("system_table", <<>>, system_table, <<>>)
    /\ UNCHANGED <<bootVars, protoVars, fwVars, memVars, svcVars, cfgVars, tplVars, gopVars>>

ImageHandleCall ==
    /\ ~halted
    /\ Return("image_handle", <<>>, image_handle, <<>>)
    /\ UNCHANGED <<bootVars, protoVars, fwVars, memVars, svcVars, cfgVars, tplVars, gopVars>>

BootServicesCall ==
    /\ ~halted
    /\ Return("boot_services", <<>>, boot_services, <<>>)
    /\ UNCHANGED <<bootVars, protoVars, fwVars, memVars, svcVars, cfgVars, tplVars, gopVars>>

InitBootstrap ==
    /\ InitCommon /\ InitBoot /\ InitProto /\ InitFw /\ InitMem /\ InitSvc /\ InitCfg /\ InitTpl /\ InitGop /\ InitBuild
    /\ revision = 0
    /\ fwUnderReport = 0

NextBootstrap ==
    \/ \E image \in ImageHandles, table \in TablePtrs : BootstrapStoreImage(image, table)
    \/ BootstrapStoreTable
    \/ SystemTableCall
    \/ ImageHandleCall
    \/ BootServicesCall

SpecBootstrap == InitBootstrap /\ [][NextBootstrap]_vars

----------------------------------------------------------------------------
(* Firmware stub: protocol handler services.  A handle is a number in      *)
(* 1..MaxHandles; 0 is the null handle.  While fwOverride is set the       *)
(* firmware returns that status from every call and writes no output.      *)

Handles == 1..MaxHandles

OverrideStatuses == {SUCCESS, OUT_OF_RESOURCES, BUFFER_TOO_SMALL}

SeqRange(s) == { s[i] : i \in 1..Len(s) }

SeqRemove(s, x) == SelectSeq(s, LAMBDA y : y # x)

\* size_of::<Handle>()
SIZE_OF_HANDLE == 8

\* the interface the firmware has installed on handle h (never null)
InterfaceOf(h) == MaxHandles + h

\* the size the firmware reports to a probe: the bytes of its handle set
\* less the bytes it under-reports
FwProbeSize == SIZE_OF_HANDLE * Len(fwHandles) - fwUnderReport

\* LocateHandle(ByProtocol, guid, null, &mut size, buffer)
FwLocateHandle(size) ==
    IF fwOverride # NoOverride
    THEN [status |-> fwOverride[1], buffer_size |-> size, written |-> <<>>]
    ELSE IF fwHandles = <<>>
    THEN [status |-> NOT_FOUND, buffer_size |-> size, written |-> <<>>]
    ELSE IF size < SIZE_OF_HANDLE * Len(fwHandles)
    THEN [status |-> BUFFER_TOO_SMALL,
          buffer_size |-> FwProbeSize, written |-> <<>>]
    ELSE [status |-> SUCCESS,
          buffer_size |-> SIZE_OF_HANDLE * Len(fwHandles), written |-> fwHandles]

\* HandleProtocol(handle, guid, &mut interface)
FwHandleProtocol(h) ==
    IF fwOverride # NoOverride
    THEN [status |-> fwOverride[1], interface |-> NULL]
    ELSE IF h = NULL
    THEN [status |-> INVALID_PARAMETER, interface |-> NULL]
    ELSE IF h \in SeqRange(fwHandles)
    THEN [status |-> SUCCESS, interface |-> InterfaceOf(h)]
    ELSE [status |-> UNSUPPORTED, interface |-> NULL]

\* LocateProtocol(guid, null, &mut interface): the first handle that supports it
FwLocateProtocol ==
    IF fwOverride # NoOverride
    THEN [status |-> fwOverride[1], interface |-> NULL]
    ELSE IF fwHandles = <<>>
    THEN [status |-> NOT_FOUND, interface |-> NULL]
    ELSE [status |-> SUCCESS, interface |-> InterfaceOf(fwHandles[1])]

FwInstallProtocol(h) ==
    /\ ~halted
    /\ h \notin SeqRange(fwHandles)
    /\ fwHandles' = Append(fwHandles, h)
    /\ fwChanged' = TRUE
    /\ UNCHANGED <<fwOverride, revision, fwUnderReport, pc, buffer_size, handles,
                   commonVars, bootVars, memVars, svcVars, cfgVars, tplVars, gopVars>>

FwUninstallProtocol(h) ==
    /\ ~halted
    /\ h \in SeqRange(fwHandles)
    /\ fwHandles' = SeqRemove(fwHandles, h)
    /\ fwChanged' = TRUE
    /\ UNCHANGED <<fwOverride, revision, fwUnderReport, pc, buffer_size, handles,
                   commonVars, bootVars, memVars, svcVars, cfgVars, tplVars, gopVars>>

FwSetOverride(o) ==
    /\ ~halted
    /\ o # fwOverride
    /\ fwOverride' = o
    /\ fwChanged' = TRUE
    /\ UNCHANGED <<protoVars, commonVars, bootVars, memVars, svcVars, cfgVars, tplVars, gopVars>>

----------------------------------------------------------------------------
(* Protocol handler services (src/src/table/boot.rs) *)

\* (1 << 16) | 10
RevisionThreshold == OrNat(2 ^ 16, 10)

\* variant: the slot is handed out as it is
proto_unwrap_null(interface) == Ok(interface)

\* Option<Proto<P>>::unwrap on the slot the firmware wrote: null is None
proto_unwrap(interface) ==
    IF interface = NULL THEN Panic ELSE Ok(interface)

protocol_for_handle_nostatus(handle) ==
    proto_unwrap(FwHandleProtocol(handle).interface)

protocol_for_handle(handle) ==
    Try(to_result(FwHandleProtocol(handle).status, Unit),
        proto_unwrap(FwHandleProtocol(handle).interface))

\* one firmware call, as the wrapper's trace records it
Call(fn, arg, status) == [fn |-> fn, arg |-> arg, status |-> status]

ProtocolForHandle(h) ==
    /\ ~halted
    /\ pc = "idle"
    /\ Return("protocol_for_handle", [handle |-> h], protocol_for_handle(h),
              <<Call("handle_protocol", h, FwHandleProtocol(h).status)>>)
    /\ fwChanged' = FALSE
    /\ handles' = <<>>
    /\ UNCHANGED <<fwOverride, revision, pc, buffer_size, fwHandles, fwUnderReport,
                   bootVars, memVars, svcVars, cfgVars, tplVars, gopVars>>

\* handles_by_protocol, the match on the probe's status: None continues to the fill
hbp_probe(status) ==
    IF status = BUFFER_TOO_SMALL THEN None
    ELSE IF status = NOT_FOUND THEN Panic
    ELSE IF status = SUCCESS THEN Panic
    ELSE to_result(status, Unit)

\* A usize is kept as the integer with the same two's-complement bit pattern:
\* -1 is usize::MAX, -8 is usize::MAX - 7, and a negative number is a size
\* above isize::MAX.

\* buffer_size + (size_of::<Handle>() - 1) overflows usize
hbp_round_up_overflows(size) ==
    size < 0 /\ size + (SIZE_OF_HANDLE - 1) >= 0

\* (buffer_size + (size_of::<Handle>() - 1)) & !(size_of::<Handle>() - 1),
\* the sum wrapped to usize
hbp_round_up(size) ==
    ((size + (SIZE_OF_HANDLE - 1)) \div SIZE_OF_HANDLE) * SIZE_OF_HANDLE

\* handles_by_protocol from the probe's status to the allocation: the match,
\* then the rounding, which panics on overflow in a build that checks it.
\* None continues to the fill
hbp_before_fill(status, size) ==
    IF hbp_probe(status).kind # "None" THEN hbp_probe(status)
    ELSE IF hbp_round_up_overflows(size) /\ overflow_checks THEN Panic
    ELSE None

\* Box::new_uninit_slice(buffer_size / size_of::<Handle>()): the number of
\* elements, or a panic (capacity overflow) when the box would be larger
\* than isize::MAX bytes
hbp_alloc(size) ==
    IF size < 0 THEN Panic ELSE Val(size \div SIZE_OF_HANDLE)

\* variant: a BUFFER_TOO_SMALL of the fill is absorbed
hbp_fill_absorb(status, written, uninit) ==
    IF status = BUFFER_TOO_SMALL THEN Ok(written \o uninit)
    ELSE Try(to_result(status, Unit), Ok(written \o uninit))

\* handles_by_protocol, the fill: the box holds buffer_size / size_of::<Handle>()
\* elements, the ones the firmware wrote and then the ones left uninitialised
hbp_fill(status, written, uninit) ==
    Try(to_result(status, Unit), Ok(written \o uninit))

\* a word that is neither null nor a handle of the firmware: the first one
\* above the handles, standing for every such word (stale heap contents
\* differ from run to run)
StaleWord == MaxHandles + 1

\* values an element the firmware did not write can hold: assume_init hands
\* out whatever the allocation held, which is null, a handle, or any other word
UninitValues == (0..MaxHandles) \cup {StaleWord}

\* first step of handles_by_protocol, entered as `name`
HbpProbe(name) ==
    LET r == FwLocateHandle(0)
        out == hbp_before_fill(r.status, r.buffer_size)
    IN  /\ op' = name
        /\ args' = <<>>
        /\ calls' = <<Call("locate_handle", 0, r.status)>>
        /\ ret' = out
        /\ halted' = (out.kind = "Panic")
        /\ pc' = IF out.kind = "None" THEN "hbp_fill" ELSE "idle"
        /\ buffer_size' = IF out.kind = "None" THEN hbp_round_up(r.buffer_size) ELSE buffer_size
        /\ fwChanged' = FALSE
        /\ handles' = <<>>
        /\ UNCHANGED <<fwOverride, revision, fwUnderReport, fwHandles, bootVars, memVars, svcVars, cfgVars, tplVars, gopVars>>

HandlesByProtocol ==
    /\ ~halted
    /\ pc = "idle"
    /\ HbpProbe("handles_by_protocol")

\* second step of handles_by_protocol: allocate, fill, assume_init
HbpFill ==
    /\ ~halted
    /\ pc = "hbp_fill"
    /\ IF hbp_alloc(buffer_size) = Panic
       THEN /\ ret' = Panic
            /\ halted' = TRUE
            /\ pc' = "idle"
            /\ UNCHANGED <<calls, buffer_size, handles>>
       ELSE LET r == FwLocateHandle(buffer_size)
                n == hbp_alloc(buffer_size).val
                w == IF Len(r.written) <= n THEN r.written ELSE SubSeq(r.written, 1, n)
            IN  \E uninit \in [1..(n - Len(w)) -> UninitValues] :
                  LET out == hbp_fill(r.status, w, uninit)
                  IN  /\ calls' = Append(calls, Call("locate_handle", buffer_size, r.status))
                      /\ buffer_size' = r.buffer_size
                      /\ halted' = halted
                      /\ IF op = "first_protocol" /\ out.kind = "Ok"
                         THEN /\ handles' = out.val
                              /\ pc' = "fp_resolve"
                              /\ ret' = None
                         ELSE /\ handles' = handles
                              /\ pc' = "idle"
                              /\ ret' = out
    /\ UNCHANGED <<op, args, fwOverride, fwChanged, revision, fwUnderReport, fwHandles,
                   bootVars, memVars, svcVars, cfgVars, tplVars, gopVars>>

\* first_protocol, revision at or above the threshold: locate_protocol
first_protocol_locate ==
    Try(to_result(FwLocateProtocol.status, Unit),
        proto_unwrap(FwLocateProtocol.interface))

\* variant: a failure on the first handle moves on to the second
first_protocol_resolve_retry(hs) ==
    IF Len(hs) = 0 THEN Panic
    ELSE IF Len(hs) >= 2 /\ protocol_for_handle(hs[1]).kind = "Err"
    THEN protocol_for_handle(hs[2])
    ELSE protocol_for_handle(hs[1])

first_protocol_resolve_second(hs) ==
    IF Len(hs) < 2 THEN Panic ELSE protocol_for_handle(hs[2])

\* first_protocol, the fallback after handles_by_protocol returned `hs`:
\* protocol_for_handle(handles[0])
first_protocol_resolve(hs) ==
    IF Len(hs) = 0 THEN Panic ELSE protocol_for_handle(hs[1])

first_protocol_gate_gt == revision > RevisionThreshold

\* first_protocol: self.header.revision >= (1 << 16) | 10
first_protocol_gate == revision >= RevisionThreshold

FirstProtocol ==
    /\ ~halted
    /\ pc = "idle"
    /\ IF first_protocol_gate
       THEN /\ Return("first_protocol", <<>>, first_protocol_locate,
                      <<Call("locate_protocol", 0, FwLocateProtocol.status)>>)
            /\ fwChanged' = FALSE
            /\ handles' = <<>>
            /\ UNCHANGED <<fwOverride, revision, pc, buffer_size, fwHandles, fwUnderReport,
                           bootVars, memVars, svcVars, cfgVars, tplVars, gopVars>>
       ELSE HbpProbe("first_protocol")

\* first_protocol, last step of the fallback
FpResolve ==
    /\ ~halted
    /\ pc = "fp_resolve"
    /\ LET out == first_protocol_resolve(handles)
       IN  /\ ret' = out
           /\ halted' = (out.kind = "Panic")
           /\ calls' = IF Len(handles) = 0 THEN calls
                       ELSE Append(calls, Call("handle_protocol", handles[1],
                                               FwHandleProtocol(handles[1]).status))
    /\ pc' = "idle"
    /\ UNCHANGED <<op, args, fwOverride, fwChanged, revision, fwUnderReport, buffer_size, handles,
                   fwHandles, bootVars, memVars, svcVars, cfgVars, tplVars, gopVars>>

Revisions == {RevisionThreshold - 1, RevisionThreshold, RevisionThreshold + 1}

\* the firmware reports whole handles, half a handle less, a whole handle
\* less (0 bytes for one handle), or so much less that the size wraps below
\* zero to the top of usize (usize::MAX and usize::MAX - 7 for one handle)
UnderReports == {0, SIZE_OF_HANDLE \div 2, SIZE_OF_HANDLE, SIZE_OF_HANDLE + 1, 2 * SIZE_OF_HANDLE}

InitProtocol ==
    /\ InitCommon /\ InitBoot /\ InitProto /\ InitFw /\ InitMem /\ InitSvc /\ InitCfg /\ InitTpl /\ InitGop
    /\ overflow_checks \in BOOLEAN
    /\ revision \in Revisions
    /\ fwUnderReport \in UnderReports

NextProtocol ==
    \/ \E h \in Handles : FwInstallProtocol(h)
    \/ \E h \in Handles : FwUninstallProtocol(h)
    \/ \E o \in {<<s>> : s \in OverrideStatuses} \cup {NoOverride} : FwSetOverride(o)
    \/ \E h \in Handles : ProtocolForHandle(h)
    \/ HandlesByProtocol
    \/ HbpFill
    \/ FirstProtocol
    \/ FpResolve

SpecProtocol == InitProtocol /\ [][NextProtocol]_vars

----------------------------------------------------------------------------
(* Firmware stub: memory map and exit of boot services.  The map holds     *)
(* fwMapCount descriptors of stride FwDescriptorSize; every change of the  *)
(* map gives it a new key.                                                 *)

FwDescriptorSize == 48

FwDescriptorVersion == 1

\* GetMemoryMap(&mut size, buffer, &mut key, &mut descriptor_size, &mut version);
\* `info` holds the four in/out words as the wrapper set them up
FwGetMemoryMap(info) ==
    IF fwOverride # NoOverride
    THEN [status |-> fwOverride[1], info |-> info]
    ELSE [status |-> IF info.buffer_size < FwDescriptorSize * fwMapCount
                     THEN BUFFER_TOO_SMALL ELSE SUCCESS,
          info |-> [buffer_size |-> FwDescriptorSize * fwMapCount,
                    descriptor_version |-> FwDescriptorVersion,
                    descriptor_size |-> FwDescriptorSize,
                    map_key |-> fwMapKey]]

\* ExitBootServices(image_handle, map_key)
FwExitBootServices(map_key) ==
    IF fwOverride # NoOverride
    THEN [status |-> fwOverride[1], exited |-> FALSE]
    ELSE IF map_key = fwMapKey
    THEN [status |-> SUCCESS, exited |-> TRUE]
    ELSE [status |-> INVALID_PARAMETER, exited |-> FALSE]

FwMapChange(n) ==
    /\ ~halted
    /\ ~fwExited
    /\ fwMapKey < MaxMapKey
    /\ fwMapCount' = n
    /\ fwMapKey' = fwMapKey + 1
    /\ fwChanged' = TRUE
    /\ UNCHANGED <<fwExited, lastProbe, staleFill, prevProbe, fwOverride, protoVars, commonVars, bootVars, svcVars, cfgVars, tplVars, gopVars>>

FwSetOverrideMem(o) ==
    /\ ~fwExited
    /\ FwSetOverride(o)

----------------------------------------------------------------------------
(* Memory services and image services (src/src/table/boot.rs) *)

\* MemoryMapInfo::default()
MemoryMapInfo_default ==
    [buffer_size |-> 0, descriptor_version |-> 0, descriptor_size |-> 0, map_key |-> 0]

\* variant: the probe returns the info whatever the status
get_memory_map_info_any ==
    LET r == FwGetMemoryMap(MemoryMapInfo_default)
    IN  Ok(r.info)

\* variant: the probe hands the firmware the sizes of the last probe
get_memory_map_info_reuse ==
    LET r == FwGetMemoryMap(IF lastProbe = NoProbe THEN MemoryMapInfo_default ELSE lastProbe)
    IN  IF r.status = BUFFER_TOO_SMALL THEN Ok(r.info) ELSE Err(r.status)

get_memory_map_info ==
    LET r == FwGetMemoryMap(MemoryMapInfo_default)
    IN  IF r.status = BUFFER_TOO_SMALL THEN Ok(r.info) ELSE Err(r.status)

get_memory_map_absorb(len, key) ==
    LET r == FwGetMemoryMap([MemoryMapInfo_default EXCEPT !.buffer_size = len, !.map_key = key])
    IN  IF r.status \in {SUCCESS, BUFFER_TOO_SMALL} THEN Ok(r.info) ELSE Err(r.status)

\* variant: the key the caller passed in is handed back
get_memory_map_stalekey(len, key) ==
    LET r == FwGetMemoryMap([MemoryMapInfo_default EXCEPT !.buffer_size = len, !.map_key = key])
    IN  IF r.status = SUCCESS THEN Ok([r.info EXCEPT !.map_key = key]) ELSE Err(r.status)

get_memory_map(len, key) ==
    LET r == FwGetMemoryMap([MemoryMapInfo_default EXCEPT !.buffer_size = len, !.map_key = key])
    IN  IF r.status = SUCCESS THEN Ok(r.info) ELSE Err(r.status)

exit_boot_services_ok(image, map_key) == Ok(Unit)

exit_boot_services(image, map_key) ==
    to_result(FwExitBootServices(map_key).status, Unit)

\* buffer lengths a caller passes to get_memory_map
BufferSizes ==
    { n * FwDescriptorSize + m : n \in 0..(MaxRecords + 1), m \in {0, 40} }

GetMemoryMapInfo ==
    /\ ~halted
    /\ ~fwExited
    /\ Return("get_memory_map_info", <<>>, get_memory_map_info,
              <<Call("get_memory_map", 0, FwGetMemoryMap(MemoryMapInfo_default).status)>>)
    /\ lastProbe' = IF get_memory_map_info.kind = "Ok" THEN get_memory_map_info.val
                    ELSE lastProbe
    /\ prevProbe' = IF Settled("get_memory_map_info")
                    THEN <<[ret |-> ret, count |-> fwMapCount, key |-> fwMapKey]>>
                    ELSE <<>>
    /\ fwChanged' = FALSE
    /\ UNCHANGED <<fwMapCount, fwMapKey, fwExited, staleFill, fwOverride, protoVars, bootVars, svcVars, cfgVars, tplVars, gopVars>>

GetMemoryMap(len, key) ==
    /\ ~halted
    /\ ~fwExited
    /\ Return("get_memory_map", [len |-> len, key |-> key], get_memory_map(len, key),
              <<Call("get_memory_map", len,
                     FwGetMemoryMap([MemoryMapInfo_default EXCEPT !.buffer_size = len,
                                                                  !.map_key = key]).status)>>)
    /\ staleFill' = (staleFill \/ (/\ lastProbe # NoProbe
                                   /\ len = lastProbe.buffer_size
                                   /\ get_memory_map(len, key) = Err(BUFFER_TOO_SMALL)))
    /\ prevProbe' = <<>>
    /\ fwChanged' = FALSE
    /\ UNCHANGED <<fwMapCount, fwMapKey, fwExited, lastProbe, fwOverride, protoVars, bootVars, svcVars, cfgVars, tplVars, gopVars>>

ExitBootServices(image, key) ==
    /\ ~halted
    /\ ~fwExited
    /\ Return("exit_boot_services", [image_handle |-> image, map_key |-> key],
              exit_boot_services(image, key),
              <<Call("exit_boot_services", key, FwExitBootServices(key).status)>>)
    /\ fwExited' = FwExitBootServices(key).exited
    /\ prevProbe' = <<>>
    /\ fwChanged' = FALSE
    /\ UNCHANGED <<fwMapCount, fwMapKey, lastProbe, staleFill, fwOverride, protoVars, bootVars, svcVars, cfgVars, tplVars, gopVars>>

InitMemoryMap ==
    /\ InitCommon /\ InitBoot /\ InitProto /\ InitFw /\ InitMem /\ InitSvc /\ InitCfg /\ InitTpl /\ InitGop /\ InitBuild
    /\ revision = RevisionThreshold
    /\ fwUnderReport = 0

NextMemoryMap ==
    \/ \E n \in 1..MaxRecords : FwMapChange(n)
    \/ \E o \in {<<s>> : s \in OverrideStatuses} \cup {NoOverride} : FwSetOverrideMem(o)
    \/ GetMemoryMapInfo
    \/ \E len \in BufferSizes, key \in {0, lastProbe.map_key} : GetMemoryMap(len, key)
    \/ \E image \in ImageHandles, key \in 0..MaxMapKey : ExitBootServices(image, key)

SpecMemoryMap == InitMemoryMap /\ [][NextMemoryMap]_vars

----------------------------------------------------------------------------
(* Firmware stub: page allocator, pool allocator and monotonic counter.    *)
(* Memory is MaxPages pages numbered 1..MaxPages (an address is a page     *)
(* number, 0 is never a page); the pool hands out buffers 1..MaxBuffers.   *)

\* pages n..n+len-1
PageRange(n, len) == n..(n + len - 1)

\* start pages at which len free pages lie below or at the limit
FreeStarts(len, limit) ==
    { a \in 1..MaxPages : /\ a + len - 1 <= limit
                          /\ PageRange(a, len) \cap fwPages = {} }

SetMin(S) == CHOOSE x \in S : \A y \in S : x <= y

\* AllocatePages(type, memory_type, pages, &mut memory)
FwAllocatePages(type, num_pages, memory) ==
    LET starts == CASE type = "AnyPages"   -> FreeStarts(num_pages, MaxPages)
                    [] type = "MaxAddress" -> FreeStarts(num_pages, memory)
                    [] type = "Address"    -> FreeStarts(num_pages, MaxPages) \cap {memory}
    IN  IF fwOverride # NoOverride
        THEN [status |-> fwOverride[1], memory |-> memory, pages |-> fwPages]
        ELSE IF starts = {}
        THEN [status |-> IF type = "Address" THEN NOT_FOUND ELSE OUT_OF_RESOURCES,
              memory |-> memory, pages |-> fwPages]
        ELSE [status |-> SUCCESS, memory |-> SetMin(starts),
              pages |-> fwPages \cup PageRange(SetMin(starts), num_pages)]

\* FreePages(memory, pages)
FwFreePages(memory, num_pages) ==
    IF fwOverride # NoOverride
    THEN [status |-> fwOverride[1], pages |-> fwPages]
    ELSE IF PageRange(memory, num_pages) \subseteq fwPages
    THEN [status |-> SUCCESS, pages |-> fwPages \ PageRange(memory, num_pages)]
    ELSE [status |-> NOT_FOUND, pages |-> fwPages]

\* AllocatePool(pool_type, size, &mut buffer)
FwAllocatePool(size, buffer) ==
    IF fwOverride # NoOverride
    THEN [status |-> fwOverride[1], buffer |-> buffer, pool |-> fwPool]
    ELSE IF (1..MaxBuffers) \ fwPool = {}
    THEN [status |-> OUT_OF_RESOURCES, buffer |-> buffer, pool |-> fwPool]
    ELSE [status |-> SUCCESS, buffer |-> SetMin((1..MaxBuffers) \ fwPool),
          pool |-> fwPool \cup {SetMin((1..MaxBuffers) \ fwPool)}]

\* FreePool(buffer)
FwFreePool(buffer) ==
    IF fwOverride # NoOverride
    THEN [status |-> fwOverride[1], pool |-> fwPool]
    ELSE IF buffer \in fwPool
    THEN [status |-> SUCCESS, pool |-> fwPool \ {buffer}]
    ELSE [status |-> INVALID_PARAMETER, pool |-> fwPool]

\* GetNextMonotonicCount(&mut count)
FwGetNextMonotonicCount(count) ==
    IF fwOverride # NoOverride
    THEN [status |-> fwOverride[1], count |-> count, next |-> fwCount]
    ELSE [status |-> SUCCESS, count |-> fwCount + 1, next |-> fwCount + 1]

\* statuses the firmware is made to fail the memory services with
ServiceOverrides == OverrideStatuses \cup {WARN_STALE_DATA}

FwSetOverrideSvc(o) ==
    /\ ~fwExited
    /\ FwSetOverride(o)

----------------------------------------------------------------------------
(* Memory services and misc. boot services (src/src/table/boot.rs) *)

\* alloc_type is [tag |-> "Any"], [tag |-> "Max", addr |-> a] or [tag |-> "Addr", addr |-> a]
AllocType(alloc_type) ==
    CASE alloc_type.tag = "Any"  -> [type |-> "AnyPages",   memory |-> 0]
      [] alloc_type.tag = "Max"  -> [type |-> "MaxAddress", memory |-> alloc_type.addr]
      [] alloc_type.tag = "Addr" -> [type |-> "Address",    memory |-> alloc_type.addr]

allocate_pages(alloc_type, num_pages) ==
    LET a == AllocType(alloc_type)
        r == FwAllocatePages(a.type, num_pages, a.memory)
    IN  to_result(r.status, r.memory)

free_pages(memory, num_pages) ==
    to_result(FwFreePages(memory, num_pages).status, Unit)

\* variant: the buffer is returned whatever the status
allocate_pool_unchecked(size) ==
    LET r == FwAllocatePool(size, NULL)
    IN  Ok(r.buffer)

allocate_pool(size) ==
    LET r == FwAllocatePool(size, NULL)
    IN  to_result(r.status, r.buffer)

free_pool(buffer) ==
    to_result(FwFreePool(buffer).status, Unit)

next_monotonic_count ==
    LET r == FwGetNextMonotonicCount(0)
    IN  to_result(r.status, r.count)

AllocPagesTypes ==
    {[tag |-> "Any"]} \cup { [tag |-> t, addr |-> a] : t \in {"Max", "Addr"}, a \in 1..MaxPages }

AllocatePages(alloc_type, num_pages) ==
    LET a == AllocType(alloc_type)
        r == FwAllocatePages(a.type, num_pages, a.memory)
    IN  /\ ~halted
        /\ ~fwExited
        /\ Return("allocate_pages", [alloc_type |-> alloc_type, num_pages |-> num_pages],
                  allocate_pages(alloc_type, num_pages),
                  <<Call("allocate_pages", num_pages, r.status)>>)
        /\ fwPages' = r.pages
        /\ fwChanged' = FALSE
        /\ UNCHANGED <<fwPool, fwCount, fwOverride, protoVars, bootVars, memVars, cfgVars, tplVars, gopVars>>

FreePages(memory, num_pages) ==
    /\ ~halted
    /\ ~fwExited
    /\ Return("free_pages", [memory |-> memory, num_pages |-> num_pages],
              free_pages(memory, num_pages),
              <<Call("free_pages", memory, FwFreePages(memory, num_pages).status)>>)
    /\ fwPages' = FwFreePages(memory, num_pages).pages
    /\ fwChanged' = FALSE
    /\ UNCHANGED <<fwPool, fwCount, fwOverride, protoVars, bootVars, memVars, cfgVars, tplVars, gopVars>>

AllocatePool(size) ==
    /\ ~halted
    /\ ~fwExited
    /\ Return("allocate_pool", [size |-> size], allocate_pool(size),
              <<Call("allocate_pool", size, FwAllocatePool(size, NULL).status)>>)
    /\ fwPool' = FwAllocatePool(size, NULL).pool
    /\ fwChanged' = FALSE
    /\ UNCHANGED <<fwPages, fwCount, fwOverride, protoVars, bootVars, memVars, cfgVars, tplVars, gopVars>>

FreePool(buffer) ==
    /\ ~halted
    /\ ~fwExited
    /\ Return("free_pool", [buffer |-> buffer], free_pool(buffer),
              <<Call("free_pool", buffer, FwFreePool(buffer).status)>>)
    /\ fwPool' = FwFreePool(buffer).pool
    /\ fwChanged' = FALSE
    /\ UNCHANGED <<fwPages, fwCount, fwOverride, protoVars, bootVars, memVars, cfgVars, tplVars, gopVars>>

NextMonotonicCount ==
    /\ ~halted
    /\ ~fwExited
    /\ fwCount < MaxCount
    /\ Return("next_monotonic_count", <<>>, next_monotonic_count,
              <<Call("get_next_monotonic_count", 0, FwGetNextMonotonicCount(0).status)>>)
    /\ fwCount' = FwGetNextMonotonicCount(0).next
    /\ fwChanged' = FALSE
    /\ UNCHANGED <<fwPages, fwPool, fwOverride, protoVars, bootVars, memVars, cfgVars, tplVars, gopVars>>

InitServices ==
    /\ InitCommon /\ InitBoot /\ InitProto /\ InitFw /\ InitMem /\ InitSvc /\ InitCfg /\ InitTpl /\ InitGop /\ InitBuild
    /\ revision = RevisionThreshold
    /\ fwUnderReport = 0

NextServices ==
    \/ \E o \in {<<s>> : s \in ServiceOverrides} \cup {NoOverride} : FwSetOverrideSvc(o)
    \/ \E t \in AllocPagesTypes, n \in 1..2 : AllocatePages(t, n)
    \/ \E m \in 1..MaxPages, n \in 1..2 : FreePages(m, n)
    \/ \E size \in 1..2 : AllocatePool(size)
    \/ \E b \in NULL..MaxBuffers : FreePool(b)
    \/ NextMonotonicCount
    \/ \E len \in {0, FwDescriptorSize * fwMapCount} : GetMemoryMap(len, 0)
    \/ \E image \in ImageHandles, key \in {0, fwMapKey} : ExitBootServices(image, key)

SpecServices == InitServices /\ [][NextServices]_vars

----------------------------------------------------------------------------
(* Guid (src/src/lib.rs) and the configuration table                       *)
(* (src/src/table/config.rs).  The integer fields of a Guid are kept as    *)
(* their bytes, most significant first: a is 4 bytes, b and c are 2 bytes, *)
(* d is the 8-byte array.                                                  *)

\* macro guid!
guid(a, b, c, d) == [a |-> a, b |-> b, c |-> c, d |-> d]

\* variant: the byte array d is not compared
guid_eq_abc(x, y) ==
    x.a = y.a /\ x.b = y.b /\ x.c = y.c

\* #[derive(PartialEq)] for Guid (and for the transparent TableGuid)
guid_eq(x, y) ==
    x.a = y.a /\ x.b = y.b /\ x.c = y.c /\ x.d = y.d

\* table_guids!
ACPI == guid(<<235, 157, 45, 48>>, <<45, 136>>, <<17, 211>>, <<154, 22, 0, 144, 39, 63, 193, 77>>)
ACPI_20 == guid(<<136, 104, 232, 113>>, <<228, 241>>, <<17, 211>>, <<188, 34, 0, 128, 199, 60, 136, 129>>)
SAL_SYSTEM == guid(<<235, 157, 45, 50>>, <<45, 136>>, <<17, 211>>, <<154, 22, 0, 144, 39, 63, 193, 77>>)
SMBIOS == guid(<<235, 157, 45, 49>>, <<45, 136>>, <<17, 211>>, <<154, 22, 0, 144, 39, 63, 193, 77>>)
MPS == guid(<<235, 157, 45, 47>>, <<45, 136>>, <<17, 211>>, <<154, 22, 0, 144, 39, 63, 193, 77>>)

TableGuids == {ACPI, ACPI_20, SAL_SYSTEM, SMBIOS, MPS}

\* Option<*mut c_void>
Some(v) == [kind |-> "Some", val |-> v]
OptionNone == [kind |-> "OptionNone"]

\* variant: the scan keeps going and the last match wins
RECURSIVE get_table_last(_, _)
get_table_last(self, g) ==
    IF self = <<>> THEN OptionNone
    ELSE IF get_table_last(Tail(self), g) # OptionNone THEN get_table_last(Tail(self), g)
    ELSE IF guid_eq(Head(self).vendor_guid, g) THEN Some(Head(self).vendor_table)
    ELSE OptionNone

\* ConfigTable::get_table; self is the entries slice
RECURSIVE get_table(_, _)
get_table(self, g) ==
    IF self = <<>> THEN OptionNone
    ELSE IF guid_eq(Head(self).vendor_guid, g) THEN Some(Head(self).vendor_table)
    ELSE get_table(Tail(self), g)

GetTable(g) ==
    /\ ~halted
    /\ Return("get_table", [self |-> entries, guid |-> g], get_table(entries, g), <<>>)
    /\ UNCHANGED <<entries, bootVars, protoVars, fwVars, memVars, svcVars, tplVars, gopVars>>

\* identifiers the firmware publishes tables under
ConfigGuids == {ACPI, ACPI_20, SMBIOS}

VendorTables == 1..MaxVendorTables

ConfigurationEntries ==
    { [vendor_guid |-> g, vendor_table |-> p] : g \in ConfigGuids, p \in VendorTables }

\* sequences over S of length at most n
RECURSIVE SeqsUpTo(_, _)
SeqsUpTo(S, n) ==
    IF n = 0 THEN {<<>>}
    ELSE SeqsUpTo(S, n - 1) \cup { Append(s, x) : s \in { t \in SeqsUpTo(S, n - 1) : Len(t) = n - 1 }, x \in S }

InitConfig ==
    /\ InitCommon /\ InitBoot /\ InitProto /\ InitFw /\ InitMem /\ InitSvc /\ InitTpl /\ InitGop /\ InitBuild
    /\ revision = RevisionThreshold
    /\ fwUnderReport = 0
    /\ entries \in SeqsUpTo(ConfigurationEntries, MaxEntries)

NextConfig ==
    \E g \in ConfigGuids \cup {MPS} : GetTable(g)

SpecConfig == InitConfig /\ [][NextConfig]_vars

\* the 16 bytes of a Guid in field order
GuidBytes(x) == x.a \o x.b \o x.c \o x.d

\* the Guid whose 16 bytes are bs
GuidOfBytes(bs) ==
    guid(SubSeq(bs, 1, 4), SubSeq(bs, 5, 6), SubSeq(bs, 7, 8), SubSeq(bs, 9, 16))

\* x with byte i replaced by a different byte
FlipByte(x, i) ==
    GuidOfBytes([GuidBytes(x) EXCEPT ![i] = (@ + 1) % 256])

GuidInputs == TableGuids \cup { FlipByte(ACPI, i) : i \in 1..16 }

\* x == y and y == x
GuidEq(x, y) ==
    /\ ~halted
    /\ Return("guid_eq", [x |-> x, y |-> y],
              Val([xy |-> guid_eq(x, y), yx |-> guid_eq(y, x)]), <<>>)
    /\ UNCHANGED <<bootVars, protoVars, fwVars, memVars, svcVars, cfgVars, tplVars, gopVars>>

InitGuid ==
    /\ InitCommon /\ InitBoot /\ InitProto /\ InitFw /\ InitMem /\ InitSvc /\ InitCfg /\ InitTpl /\ InitGop /\ InitBuild
    /\ revision = 0
    /\ fwUnderReport = 0

NextGuid ==
    \E x \in GuidInputs, y \in GuidInputs : GuidEq(x, y)

SpecGuid == InitGuid /\ [][NextGuid]_vars

----------------------------------------------------------------------------
(* Task priority services (src/src/table/boot.rs).  The firmware stub      *)
(* keeps one current level: RaiseTPL returns it and installs the new one,  *)
(* RestoreTPL installs the level it is given.                              *)

\* RaiseTPL(new): the level before the call, and the level after it
FwRaiseTpl(new) == [old |-> fwTpl, tpl |-> new]

\* RestoreTPL(old): the level after the call
FwRestoreTpl(old) == [tpl |-> old]

\* one firmware call that returns no status
CallNoStatus(fn, arg) == [fn |-> fn, arg |-> arg]

\* variant: the level asked for is returned
raise_tpl_new(tpl) == FwRaiseTpl(tpl).tpl

\* raise_tpl: (self.raise_tpl)(tpl)
raise_tpl(tpl) == FwRaiseTpl(tpl).old

\* restore_tpl: the level handed to (self.restore_tpl)
restore_tpl(old) == old

\* the firmware service expects a level at or above the current one
RaiseTpl(tpl) ==
    /\ ~halted
    /\ tpl >= fwTpl
    /\ Len(tplSaved) < MaxNesting
    /\ Return("raise_tpl", [tpl |-> tpl], Val(raise_tpl(tpl)),
              <<CallNoStatus("raise_tpl", tpl)>>)
    /\ fwTpl' = FwRaiseTpl(tpl).tpl
    /\ tplBefore' = fwTpl
    /\ tplSaved' = Append(tplSaved, raise_tpl(tpl))
    /\ UNCHANGED <<tplBase, tplNested, bootVars, protoVars, fwVars, memVars, svcVars, cfgVars, gopVars>>

\* restore_tpl with any level; the caller's bookkeeping follows its own use:
\* restoring the level saved last closes that raise_tpl
RestoreTpl(old) ==
    /\ ~halted
    /\ Return("restore_tpl", [old |-> old], Val(Unit),
              <<CallNoStatus("restore_tpl", restore_tpl(old))>>)
    /\ fwTpl' = FwRestoreTpl(restore_tpl(old)).tpl
    /\ tplBefore' = fwTpl
    /\ IF tplSaved # <<>> /\ old = tplSaved[Len(tplSaved)]
       THEN /\ tplSaved' = SubSeq(tplSaved, 1, Len(tplSaved) - 1)
            /\ tplNested' = tplNested
       ELSE /\ tplSaved' = tplSaved
            /\ tplNested' = FALSE
    /\ UNCHANGED <<tplBase, bootVars, protoVars, fwVars, memVars, svcVars, cfgVars, gopVars>>

InitTplSpec ==
    /\ InitCommon /\ InitBoot /\ InitProto /\ InitFw /\ InitMem /\ InitSvc /\ InitCfg /\ InitGop /\ InitBuild
    /\ revision = RevisionThreshold
    /\ fwUnderReport = 0
    /\ \E base \in {APPLICATION, CALLBACK} : InitTplAt(base)

NextTpl ==
    \/ \E tpl \in Tpls : RaiseTpl(tpl)
    \/ \E old \in Tpls : RestoreTpl(old)

SpecTpl == InitTplSpec /\ [][NextTpl]_vars

----------------------------------------------------------------------------
(* Simple text output (src/src/proto/console/text_output.rs).  A string is *)
(* a sequence of UTF-16 code units.  The firmware stub reads a string up   *)
(* to its first 0 and knows no glyph for the code unit UnknownGlyph.       *)

\* the code unit the firmware has no glyph for
UnknownGlyph == 9731

CodeUnits == {0, 65, UnknownGlyph}

\* the code units before the first 0
RECURSIVE TextOf(_)
TextOf(s) ==
    IF s = <<>> \/ Head(s) = 0 THEN <<>> ELSE <<Head(s)>> \o TextOf(Tail(s))

\* OutputString(this, string)
FwOutputString(s) ==
    IF fwOverride # NoOverride
    THEN [status |-> fwOverride[1]]
    ELSE IF UnknownGlyph \in SeqRange(TextOf(s))
    THEN [status |-> WARN_UNKNOWN_GLYPH]
    ELSE [status |-> SUCCESS]

\* TestString(this, string)
FwTestString(s) ==
    IF fwOverride # NoOverride
    THEN [status |-> fwOverride[1]]
    ELSE IF UnknownGlyph \in SeqRange(TextOf(s))
    THEN [status |-> UNSUPPORTED]
    ELSE [status |-> SUCCESS]

\* fn check_null_terminated(s: &[u16]) -> bool
RECURSIVE check_null_terminated(_)
check_null_terminated(s) ==
    IF s = <<>> THEN FALSE
    ELSE IF Head(s) = 0 THEN TRUE
    ELSE check_null_terminated(Tail(s))

\* variant: the string is handed to the firmware unchecked
output_string_unchecked(s) ==
    to_result(FwOutputString(s).status, Unit)

output_string(s) ==
    IF ~check_null_terminated(s) THEN Panic
    ELSE to_result(FwOutputString(s).status, Unit)

test_string(s) ==
    IF ~check_null_terminated(s) THEN Panic
    ELSE to_result(FwTestString(s).status, Unit)

OutputString(s) ==
    /\ ~halted
    /\ Return("output_string", [s |-> s], output_string(s),
              IF check_null_terminated(s)
              THEN <<Call("output_string", s, FwOutputString(s).status)>>
              ELSE <<>>)
    /\ fwChanged' = FALSE
    /\ UNCHANGED <<fwOverride, bootVars, protoVars, memVars, svcVars, cfgVars, tplVars, gopVars>>

TestString(s) ==
    /\ ~halted
    /\ Return("test_string", [s |-> s], test_string(s),
              IF check_null_terminated(s)
              THEN <<Call("test_string", s, FwTestString(s).status)>>
              ELSE <<>>)
    /\ fwChanged' = FALSE
    /\ UNCHANGED <<fwOverride, bootVars, protoVars, memVars, svcVars, cfgVars, tplVars, gopVars>>

\* the slices a caller passes
Strings == SeqsUpTo(CodeUnits, MaxStrLen)

InitText ==
    /\ InitCommon /\ InitBoot /\ InitProto /\ InitFw /\ InitMem /\ InitSvc /\ InitCfg /\ InitTpl /\ InitGop /\ InitBuild
    /\ revision = RevisionThreshold
    /\ fwUnderReport = 0

NextText ==
    \/ \E o \in {<<st>> : st \in OverrideStatuses} \cup {NoOverride} : FwSetOverride(o)
    \/ \E s \in Strings : OutputString(s)
    \/ \E s \in Strings : TestString(s)

SpecText == InitText /\ [][NextText]_vars

----------------------------------------------------------------------------
(* Graphics output (src/src/proto/console/gop.rs).  The firmware stub      *)
(* knows the modes 0 .. max_mode - 1 and reports fwInfoSize bytes of mode  *)
(* information for each of them.                                           *)

\* the ModeInfo the firmware keeps for a mode (never the null pointer)
ModeInfoOf(mode) == mode.lo + 1

\* QueryMode(this, mode, &mut size, &mut info)
FwQueryMode(mode) ==
    IF fwOverride # NoOverride
    THEN [status |-> fwOverride[1], size |-> 0, ptr |-> NULL]
    ELSE IF u32_lt(mode, max_mode)
    THEN [status |-> SUCCESS, size |-> fwInfoSize, ptr |-> ModeInfoOf(mode)]
    ELSE [status |-> INVALID_PARAMETER, size |-> 0, ptr |-> NULL]

\* variant: the reported size is not looked at
query_mode_noassert(mode) ==
    LET r == FwQueryMode(mode)
    IN  Try(to_result(r.status, Unit), Ok(r.ptr))

\* GraphicsOutput::query_mode
query_mode(mode) ==
    LET r == FwQueryMode(mode)
    IN  Try(to_result(r.status, Unit),
            IF r.size >= SIZE_OF_MODE_INFO THEN Ok(r.ptr) ELSE Panic)

\* one QueryMode call, with the size the firmware reported
QueryModeCall(mode) ==
    [fn |-> "query_mode", arg |-> mode,
     status |-> FwQueryMode(mode).status, size |-> FwQueryMode(mode).size]

QueryMode(mode) ==
    /\ ~halted
    /\ Return("query_mode", [mode |-> mode], query_mode(mode), <<QueryModeCall(mode)>>)
    /\ fwChanged' = FALSE
    /\ UNCHANGED <<fwOverride, bootVars, protoVars, memVars, svcVars, cfgVars, tplVars, gopVars>>

\* all_modes: `self.mode().max_mode - 1`; the subtraction panics when the
\* build checks overflow and wraps when it does not
all_modes_max_mode ==
    IF u32_sub1(max_mode).overflow /\ overflow_checks THEN Panic
    ELSE Val(u32_sub1(max_mode).val)

\* GraphicsOutput::all_modes: the iterator is created
AllModes ==
    /\ ~halted
    /\ IF all_modes_max_mode = Panic
       THEN /\ Return("all_modes", <<>>, Panic, <<>>)
            /\ UNCHANGED <<ipc, next_calls, current_mode, iter_max_mode, yielded>>
       ELSE /\ Return("all_modes", <<>>, Val("iterator"), <<>>)
            /\ ipc' = "live"
            /\ next_calls' = 0
            /\ current_mode' = U32(0)
            /\ iter_max_mode' = all_modes_max_mode.val
            /\ yielded' = <<>>
    /\ fwChanged' = FALSE
    /\ UNCHANGED <<max_mode, fwInfoSize, overflow_checks, fwOverride,
                   bootVars, protoVars, memVars, svcVars, cfgVars, tplVars>>

\* the closure of all_modes: one call of next() on the iterator.  The closure
\* keeps no "finished" flag: it runs the same way on every call, also after
\* it has returned None
all_modes_next ==
    IF u32_add1(current_mode).overflow /\ overflow_checks THEN Panic
    ELSE IF u32_le(current_mode, iter_max_mode)
    THEN IF query_mode(current_mode) = Panic THEN Panic
         ELSE Some([mode |-> current_mode, result |-> query_mode(current_mode)])
    ELSE OptionNone

IterNext ==
    /\ ~halted
    /\ ipc # "none"
    /\ next_calls < MaxNext
    /\ next_calls' = next_calls + 1
    /\ Return("next", <<>>, all_modes_next,
              IF ~(u32_add1(current_mode).overflow /\ overflow_checks)
                 /\ u32_le(current_mode, iter_max_mode)
              THEN <<QueryModeCall(current_mode)>> ELSE <<>>)
    /\ current_mode' = IF u32_add1(current_mode).overflow /\ overflow_checks
                       THEN current_mode ELSE u32_add1(current_mode).val
    /\ yielded' = IF all_modes_next.kind = "Some"
                  THEN Append(yielded, all_modes_next.val) ELSE yielded
    /\ ipc' = IF all_modes_next = OptionNone THEN "done" ELSE ipc
    /\ fwChanged' = FALSE
    /\ UNCHANGED <<iter_max_mode, max_mode, fwInfoSize, overflow_checks, fwOverride,
                   bootVars, protoVars, memVars, svcVars, cfgVars, tplVars>>

\* info sizes the firmware reports: short of ModeInfo, exact, and longer
InfoSizes == {SIZE_OF_MODE_INFO - 4, SIZE_OF_MODE_INFO, SIZE_OF_MODE_INFO + 4}

InitGraphics ==
    /\ InitCommon /\ InitBoot /\ InitProto /\ InitFw /\ InitMem /\ InitSvc /\ InitCfg /\ InitTpl
    /\ revision = RevisionThreshold
    /\ fwUnderReport = 0
    /\ max_mode \in { U32(n) : n \in 0..MaxModes }
    /\ fwInfoSize \in InfoSizes
    /\ overflow_checks \in BOOLEAN
    /\ ipc = "none"
    /\ next_calls = 0
    /\ current_mode = U32(0)
    /\ iter_max_mode = U32(0)
    /\ yielded = <<>>

NextGraphics ==
    \/ \E o \in {<<st>> : st \in OverrideStatuses} \cup {NoOverride} : FwSetOverride(o)
    \/ \E n \in 0..MaxModes : QueryMode(U32(n))
    \/ AllModes
    \/ IterNext

SpecGraphics == InitGraphics /\ [][NextGraphics]_vars

----------------------------------------------------------------------------
(* Claims *)

Accessors == {"system_table", "image_handle", "boot_services"}

\* C1: when the firmware answers the probe of the handle enumeration with
\* NOT_FOUND, handles_by_protocol (and with it the fallback of first_protocol)
\* returns Err(NOT_FOUND) as an ordinary result and the program is not halted.
C1_NotFoundIsErr ==
    (/\ op \in {"handles_by_protocol", "first_protocol"}
     /\ Len(calls) >= 1
     /\ calls[1].fn = "locate_handle"
     /\ calls[1].status = NOT_FOUND)
    => (ret = Err(NOT_FOUND) /\ ~halted)

\* C2: get_memory_map on a buffer smaller than the map at fill time (the map
\* grew after the probe) returns Err(BUFFER_TOO_SMALL); on a buffer at least as
\* large as the map at fill time it returns Ok, and the returned buffer_size is
\* descriptor_size times the number of records present at fill time.
C2_StaleFillReported ==
    (Settled("get_memory_map") /\ fwOverride = NoOverride)
    => /\ (args.len < FwDescriptorSize * fwMapCount) => (ret = Err(BUFFER_TOO_SMALL))
       /\ (args.len >= FwDescriptorSize * fwMapCount)
            => /\ ret.kind = "Ok"
               /\ ret.val.descriptor_size = FwDescriptorSize
               /\ ret.val.buffer_size = ret.val.descriptor_size * fwMapCount

\* a fill on a buffer of the probed size has reported BUFFER_TOO_SMALL, and a
\* later fill on a buffer of the newly probed size has succeeded on the grown map
C2_Witness ==
    /\ staleFill
    /\ Settled("get_memory_map")
    /\ fwMapCount >= 2
    /\ args.len = lastProbe.buffer_size
    /\ ret.kind = "Ok"
    /\ ret.val.buffer_size = FwDescriptorSize * fwMapCount

C4_ToResultIffSuccess ==
    (op = "to_result")
    => /\ (ret.kind = "Ok") <=> (args.self.hi = 0 /\ args.self.lo = 0)
       /\ (ret.kind = "Ok") => (ret.val = args.ok)
       /\ (ret.kind # "Ok") => (ret.kind = "Err" /\ ret.status = args.self)

\* a warning-class status has been converted, to a failure
C4_Witness ==
    /\ op = "to_result"
    /\ args.self.hi = 0
    /\ args.self.lo = 5
    /\ ret.kind = "Err"

\* C5: an accessor called before any bootstrap call ends in a panic: it returns
\* no value and the program is halted.
C5_AccessorBeforeBootstrapPanics ==
    (op \in Accessors /\ nBootstrap = 0) => (ret = Panic /\ halted)

C5_Witness ==
    /\ op = "boot_services"
    /\ nBootstrap = 0
    /\ ret = Panic
    /\ halted

\* C6: once a bootstrap call has captured the image handle and the table
\* pointer, no later step, a further bootstrap call included, changes them.
C6_WriteOnce ==
    [][(nBootstrap > 0 /\ bpc = "idle")
         => (IMAGE_HANDLE' = IMAGE_HANDLE /\ SYSTEM_TABLE' = SYSTEM_TABLE)]_vars

\* C7: first_protocol makes the single locate_protocol call and no handle
\* enumeration exactly when the revision is at least (1 << 16) | 10; below it,
\* it never calls locate_protocol, enumerates the handles first, and when the
\* enumeration succeeds resolves the interface on the handle at index 0 of the
\* firmware-returned order.
C7_RevisionGated ==
    (op = "first_protocol" /\ pc = "idle")
    => IF revision >= 65546
       THEN Len(calls) = 1 /\ calls[1].fn = "locate_protocol"
       ELSE /\ \A i \in 1..Len(calls) : calls[i].fn # "locate_protocol"
            /\ calls[1].fn = "locate_handle"
            /\ Len(calls) <= 3
            /\ (Len(calls) >= 2) => (calls[2].fn = "locate_handle")
            /\ (Len(calls) >= 2 /\ calls[2].status = SUCCESS /\ Len(handles) > 0)
                 => Len(calls) = 3
            /\ (Len(calls) = 3)
                 => (calls[3].fn = "handle_protocol" /\ calls[3].arg = handles[1])
            /\ (Len(calls) = 3 /\ ~fwChanged /\ fwOverride = NoOverride)
                 => calls[3].arg = fwHandles[1]

\* at exactly the threshold revision the direct lookup has been used
C7_Witness ==
    /\ op = "first_protocol"
    /\ revision = 65546
    /\ fwUnderReport = 0
    /\ Len(fwHandles) = 2
    /\ calls = <<Call("locate_protocol", 0, SUCCESS)>>
    /\ ret.kind = "Ok"

\* C8: on the same firmware state, the empty handle set included, first_protocol
\* below the revision threshold produces the outcome first_protocol produces at
\* or above it.
C8_SameContract ==
    Settled("first_protocol") => ret = first_protocol_locate

\* C9: protocol_for_handle returns Ok only when handle_protocol returned
\* SUCCESS; when the handle does not implement the identifier it returns Err
\* carrying exactly the firmware's status, and no binding.
C9_ProtocolForHandle ==
    (op = "protocol_for_handle")
    => /\ (ret.kind = "Ok") => (calls[1].status = SUCCESS /\ ret.val # NULL)
       /\ (calls[1].status # SUCCESS) => (ret = Err(calls[1].status))
       /\ (/\ ~fwChanged
           /\ fwOverride = NoOverride
           /\ args.handle \notin SeqRange(fwHandles))
            => (ret.kind = "Err" /\ ret = Err(calls[1].status))

\* a handle that does not implement the identifier has been resolved, while
\* another handle does implement it
C9_Witness ==
    /\ op = "protocol_for_handle"
    /\ ~fwChanged
    /\ fwOverride = NoOverride
    /\ fwHandles # <<>>
    /\ args.handle \notin SeqRange(fwHandles)
    /\ ret = Err(UNSUPPORTED)

\* the map key the caller holds from its last probe is no longer the key of the
\* firmware's memory map
StaleKeyCall ==
    /\ Settled("exit_boot_services")
    /\ fwOverride = NoOverride
    /\ lastProbe # NoProbe
    /\ args.map_key = lastProbe.map_key
    /\ args.map_key # fwMapKey

\* C10 as stated: exit_boot_services with a stale key fails, and the failure is
\* not one of the values an ordinary status error takes; with the current key
\* it returns Ok.
C10_StaleKeyFailsDistinctly ==
    /\ StaleKeyCall
         => (ret.kind # "Ok" /\ ret \notin { Err(s) : s \in StatusInputs })
    /\ (Settled("exit_boot_services") /\ fwOverride = NoOverride
          /\ args.map_key = fwMapKey)
         => ret = Ok(Unit)

\* C10 amended: exit_boot_services with a stale key fails with Err carrying
\* exactly the status the firmware returned (INVALID_PARAMETER), an ordinary
\* status error, and boot services stay up; with the current key it returns Ok.
C10_StaleKeyIsStatusError ==
    (Settled("exit_boot_services") /\ fwOverride = NoOverride)
    => /\ (args.map_key # fwMapKey)
            => /\ ret = Err(calls[1].status)
               /\ ret = Err(INVALID_PARAMETER)
               /\ ~fwExited
       /\ (args.map_key = fwMapKey) => (ret = Ok(Unit) /\ fwExited)

C10_Witness ==
    /\ StaleKeyCall
    /\ ret = Err(INVALID_PARAMETER)

\* the last probe still describes the firmware's map, and the firmware answers normally
ProbeCurrent ==
    /\ lastProbe # NoProbe
    /\ lastProbe.map_key = fwMapKey
    /\ fwOverride = NoOverride

\* C11: when the map has not changed since the probe, a fill on exactly the
\* probed size S = n * d returns Ok with buffer_size = S, descriptor_size = d
\* and the probe's map key, and that key is the one (and the only one) that
\* makes a following exit_boot_services succeed.
C11_ProbeThenFill ==
    (/\ Settled("get_memory_map")
     /\ ProbeCurrent
     /\ args.len = lastProbe.buffer_size)
    => /\ ret.kind = "Ok"
       /\ ret.val.buffer_size = lastProbe.buffer_size
       /\ ret.val.buffer_size = fwMapCount * ret.val.descriptor_size
       /\ ret.val.descriptor_size = lastProbe.descriptor_size
       /\ ret.val.map_key = lastProbe.map_key
       /\ \A image \in ImageHandles, k \in 0..MaxMapKey :
             (exit_boot_services(image, k) = Ok(Unit)) <=> (k = ret.val.map_key)

C11_Witness ==
    /\ Settled("get_memory_map")
    /\ ProbeCurrent
    /\ args.len = lastProbe.buffer_size
    /\ args.key = 0
    /\ fwMapCount = MaxRecords
    /\ fwMapKey > 0
    /\ ret.kind = "Ok"

\* C12: two consecutive probes with no firmware change between them return the
\* same result (buffer_size, map_key, descriptor_size, descriptor_version), and
\* the probe leaves the firmware's map as it was.
C12_ProbeIdempotent ==
    (Settled("get_memory_map_info") /\ prevProbe # <<>>)
    => /\ ret = prevProbe[1].ret
       /\ fwMapCount = prevProbe[1].count
       /\ fwMapKey = prevProbe[1].key

C12_Witness ==
    /\ Settled("get_memory_map_info")
    /\ prevProbe # <<>>
    /\ ret.kind = "Ok"
    /\ ret = prevProbe[1].ret
    /\ ret.val.buffer_size = MaxRecords * FwDescriptorSize
    /\ ret.val.map_key > 1

\* C14: a probe that the firmware answers with SUCCESS halts the program:
\* get_memory_map_info panics and hands the caller no result value.
C14_ProbeSuccessHalts ==
    (/\ op = "get_memory_map_info"
     /\ Len(calls) = 1
     /\ calls[1].status = SUCCESS)
    => (ret = Panic /\ halted)

\* the wrappers that make one firmware call and convert its status
StatusWrappers ==
    {"allocate_pages", "free_pages", "allocate_pool", "free_pool",
     "exit_boot_services", "next_monotonic_count", "get_memory_map"}

\* C15: every status-returning wrapper over a single firmware call makes that
\* one call, returns Ok exactly when the firmware status is SUCCESS, and
\* otherwise returns Err carrying exactly the status the firmware returned.
C15_SingleCallStatus ==
    (op \in StatusWrappers)
    => /\ Len(calls) = 1
       /\ (ret.kind = "Ok") <=> (calls[1].status = SUCCESS)
       /\ (calls[1].status # SUCCESS) => (ret = Err(calls[1].status))

C15_Witness ==
    /\ op = "allocate_pool"
    /\ fwOverride = NoOverride
    /\ fwPool = 1..MaxBuffers
    /\ calls[1].status = OUT_OF_RESOURCES
    /\ ret = Err(OUT_OF_RESOURCES)

\* C16 as stated: for every code value c of the machine word, new_error(c) has
\* the most significant bit set and its other bits equal to c, new_warn(c) has
\* the most significant bit clear and its other bits equal to c, and
\* new_error(c) differs from every new_warn(c').
C16_ErrorWarnAnyWord ==
    (op = "new_status")
    => /\ ret.val.error.hi = 1
       /\ ret.val.error.lo = args.value.lo
       /\ ret.val.warn.hi = 0
       /\ ret.val.warn.lo = args.value.lo
       /\ \A c \in CodeInputs : ret.val.error # new_warn(c)

\* code values whose most significant bit is clear
LowCodes == { c \in CodeInputs : c.hi = 0 }

\* C16 (amended): for every code value c whose most significant bit is clear,
\* new_error(c) is c with the most significant bit set, new_warn(c) is c
\* itself (most significant bit clear), and new_error(c) differs from
\* new_warn(c') for every such c'; new_error sets the bit for every word.
C16_ErrorWarnLowCodes ==
    (op = "new_status")
    => /\ ret.val.error.hi = 1
       /\ ret.val.error.lo = args.value.lo
       /\ ret.val.warn = args.value
       /\ (args.value \in LowCodes)
          => /\ ret.val.warn.hi = 0
             /\ \A c \in LowCodes : ret.val.error # new_warn(c)

C16_Witness ==
    /\ op = "new_status"
    /\ args.value = Word(5)
    /\ ret.val.error = BUFFER_TOO_SMALL
    /\ ret.val.warn = WARN_STALE_DATA

\* C17: every named error constant has the most significant bit set, every
\* named warning constant has it clear and is not zero, SUCCESS is zero;
\* BUFFER_TOO_SMALL is the high bit with code 5 and NOT_FOUND the high bit
\* with code 14, and neither equals SUCCESS or any named warning.
C17_NamedConstants ==
    (op = "status_const")
    => /\ (args.name \in ErrorNames) => (ret.val.hi = 1)
       /\ (args.name \in WarningNames) => (ret.val.hi = 0 /\ ret.val.lo # 0)
       /\ (args.name = "SUCCESS") => (ret.val = [hi |-> 0, lo |-> 0])
       /\ (args.name = "BUFFER_TOO_SMALL") => (ret.val = [hi |-> 1, lo |-> 5])
       /\ (args.name = "NOT_FOUND") => (ret.val = [hi |-> 1, lo |-> 14])
       /\ (args.name \in {"BUFFER_TOO_SMALL", "NOT_FOUND"})
          => /\ ret.val # status_codes("SUCCESS")
             /\ \A w \in WarningNames : ret.val # status_codes(w)
       /\ (args.name = "BUFFER_TOO_SMALL") => (ret.val = BUFFER_TOO_SMALL)
       /\ (args.name = "NOT_FOUND") => (ret.val = NOT_FOUND)

C17_Witness ==
    /\ op = "status_const"
    /\ args.name = "BUFFER_TOO_SMALL"
    /\ ret.val.hi = 1
    /\ ret.val.lo = 5
    /\ ret.val # status_codes("WARN_STALE_DATA")

\* C18: the named error constants are pairwise distinct, and the named
\* warning constants are pairwise distinct.
C18_NamedDistinct ==
    (op = "status_const")
    => /\ (args.name \in ErrorNames)
          => \A e \in ErrorNames \ {args.name} : status_codes(e) # ret.val
       /\ (args.name \in WarningNames)
          => \A w \in WarningNames \ {args.name} : status_codes(w) # ret.val

C18_Witness ==
    /\ op = "status_const"
    /\ args.name = "END_OF_FILE"
    /\ ret.val = [hi |-> 1, lo |-> 31]

\* positions of the table whose identifier is the requested one
Matches == { k \in 1..Len(entries) : entries[k].vendor_guid = args.guid }

\* C13: get_table(g) returns Some of the pointer of the first entry whose
\* identifier is g, and None when no entry has it, for every table length
\* including the empty table; the lookup leaves the table unchanged.
C13_GetTableFirstMatch ==
    (op = "get_table")
    => /\ entries = args.self
       /\ (Matches = {}) => (ret = OptionNone)
       /\ (Matches # {}) => (ret = Some(entries[SetMin(Matches)].vendor_table))

C13_Witness ==
    /\ op = "get_table"
    /\ Len(entries) = MaxEntries
    /\ Matches = {2, 3}
    /\ entries[2].vendor_table # entries[3].vendor_table
    /\ ret = Some(entries[2].vendor_table)

\* number of byte positions at which two Guids differ
DiffBytes(x, y) == Cardinality({ i \in 1..16 : GuidBytes(x)[i] # GuidBytes(y)[i] })

\* C19: Guid equality is reflexive, symmetric and exact: two Guids are equal
\* exactly when all 16 bytes of a, b, c and d are equal, so Guids that differ
\* in a single byte are unequal.
C19_GuidEqExact ==
    (op = "guid_eq")
    => /\ ret.val.xy = ret.val.yx
       /\ (args.x = args.y) => ret.val.xy
       /\ ret.val.xy <=> (DiffBytes(args.x, args.y) = 0)
       /\ (DiffBytes(args.x, args.y) = 1) => ~ret.val.xy

C19_Witness ==
    /\ op = "guid_eq"
    /\ args.x = ACPI
    /\ args.y = FlipByte(ACPI, 16)
    /\ DiffBytes(args.x, args.y) = 1
    /\ ret.val.xy = FALSE

\* the fallback of first_protocol has returned after handle_protocol failed
\* on the first of several enumerated handles
FirstOfSeveralFailed ==
    /\ op = "first_protocol"
    /\ pc = "idle"
    /\ Len(handles) >= 2
    /\ Len(calls) >= 3
    /\ calls[3].fn = "handle_protocol"
    /\ calls[3].status # SUCCESS

\* C20: on the fallback path with several handles enumerated, a failure to
\* resolve the protocol on the first handle is what first_protocol returns
\* (Err with that status); no later handle is tried.
C20_FirstHandleOnly ==
    FirstOfSeveralFailed
    => /\ ret = Err(calls[3].status)
       /\ calls[3].arg = handles[1]
       /\ Cardinality({ i \in 1..Len(calls) : calls[i].fn = "handle_protocol" }) = 1

C20_Witness ==
    /\ FirstOfSeveralFailed
    /\ fwOverride = NoOverride
    /\ handles[2] \in SeqRange(fwHandles)
    /\ protocol_for_handle(handles[2]).kind = "Ok"
    /\ ret = Err(UNSUPPORTED)

\* C21: on success handles_by_protocol returns exactly the handles the firmware
\* wrote in the fill call: the length of the returned slice is the byte size
\* the fill call reported divided by the size of a handle, also when the fill
\* wrote fewer bytes than were allocated.
C21_SliceLengthIsFillSize ==
    (/\ op = "handles_by_protocol"
     /\ pc = "idle"
     /\ ret.kind = "Ok")
    => Len(ret.val) = buffer_size \div SIZE_OF_HANDLE

\* the locate_handle calls of the wrapper last entered
LocateHandleCalls == { i \in 1..Len(calls) : calls[i].fn = "locate_handle" }

\* C22: a BUFFER_TOO_SMALL returned by the fill call of handles_by_protocol
\* is returned to the caller as Err(BUFFER_TOO_SMALL); there is no re-probe or
\* retry, and one invocation makes at most two locate_handle calls.
C22_FillTooSmallReturned ==
    (op = "handles_by_protocol")
    => /\ Cardinality(LocateHandleCalls) <= 2
       /\ Len(calls) <= 2
       /\ (/\ pc = "idle"
           /\ Len(calls) = 2
           /\ calls[2].status = BUFFER_TOO_SMALL)
          => (ret = Err(BUFFER_TOO_SMALL) /\ ~halted)

C22_Witness ==
    /\ op = "handles_by_protocol"
    /\ pc = "idle"
    /\ Len(calls) = 2
    /\ calls[1].status = BUFFER_TOO_SMALL
    /\ calls[2].status = BUFFER_TOO_SMALL
    /\ calls[2].arg = SIZE_OF_HANDLE
    /\ Len(fwHandles) = 2
    /\ ret = Err(BUFFER_TOO_SMALL)

\* C23: get_memory_map_info returns Ok(info), info holding the size, key,
\* stride and version the firmware reported (the zeroes the wrapper passed in
\* where the firmware wrote nothing), if and only if the firmware answered the
\* null-buffer call with BUFFER_TOO_SMALL; any other non-success status s is
\* returned as Err(s).
C23_ProbeOkIffTooSmall ==
    (op = "get_memory_map_info")
    => /\ Len(calls) = 1
       /\ calls[1].arg = 0
       /\ (ret.kind = "Ok") <=> (calls[1].status = BUFFER_TOO_SMALL)
       /\ (calls[1].status \notin {BUFFER_TOO_SMALL, SUCCESS}) => (ret = Err(calls[1].status))
       /\ (Settled("get_memory_map_info") /\ ret.kind = "Ok")
          => ret.val = IF fwOverride = NoOverride
                       THEN [buffer_size |-> FwDescriptorSize * fwMapCount,
                             descriptor_version |-> FwDescriptorVersion,
                             descriptor_size |-> FwDescriptorSize,
                             map_key |-> fwMapKey]
                       ELSE MemoryMapInfo_default

C23_Witness ==
    /\ op = "get_memory_map_info"
    /\ calls[1].status = OUT_OF_RESOURCES
    /\ ret = Err(OUT_OF_RESOURCES)
    /\ lastProbe # NoProbe

\* the wrapper last entered was a protocol resolution that has finished with
\* a handle_protocol or locate_protocol call answered SUCCESS
ResolvedWithSuccess ==
    /\ op \in {"protocol_for_handle", "first_protocol"}
    /\ pc = "idle"
    /\ calls # <<>>
    /\ calls[Len(calls)].fn \in {"handle_protocol", "locate_protocol"}
    /\ calls[Len(calls)].status = SUCCESS

\* C27: protocol_for_handle and first_protocol return Ok only with a non-null
\* interface pointer; when the firmware answers SUCCESS but leaves the
\* interface pointer null, the call halts the program and returns no binding.
C27_NoNullBinding ==
    /\ (op \in {"protocol_for_handle", "first_protocol"} /\ ret.kind = "Ok")
       => (ret.val # NULL)
    /\ ResolvedWithSuccess => (ret.kind \in {"Ok", "Panic"} /\ halted = (ret = Panic))
    /\ (ResolvedWithSuccess /\ ~fwChanged /\ fwOverride = <<SUCCESS>>)
       => (ret = Panic /\ halted)

C27_Witness ==
    /\ ResolvedWithSuccess
    /\ op = "first_protocol"
    /\ calls[1].fn = "locate_protocol"
    /\ ~fwChanged
    /\ fwOverride = <<SUCCESS>>
    /\ fwHandles # <<>>
    /\ ret = Panic
    /\ halted

\* C29: in every reachable state, the states in the middle of a bootstrap call
\* included, a non-null SYSTEM_TABLE implies a non-null IMAGE_HANDLE; hence
\* whenever system_table() returns without halting, so does image_handle().
C29_TableImpliesImage ==
    /\ (SYSTEM_TABLE # NULL) => (IMAGE_HANDLE # NULL)
    /\ (system_table.kind = "Ok") => (image_handle.kind = "Ok")
    /\ (op = "system_table" /\ ret.kind = "Ok") => (image_handle.kind = "Ok")

\* system_table() has returned in the middle of a second bootstrap call
C29_Witness ==
    /\ bpc = "store_table"
    /\ SYSTEM_TABLE # NULL
    /\ IMAGE_HANDLE = bargs.image
    /\ SYSTEM_TABLE # bargs.system_table
    /\ op = "system_table"
    /\ ret = Ok(SYSTEM_TABLE)
    /\ image_handle.kind = "Ok"

\* C28: whenever handles_by_protocol returns Ok the slice has at least one
\* element, so the fallback of first_protocol never indexes an empty list,
\* also when the probe reported a size below one handle or not a multiple of
\* the handle size.
C28_OkSliceNonEmpty ==
    /\ (op = "handles_by_protocol" /\ pc = "idle" /\ ret.kind = "Ok") => (Len(ret.val) >= 1)
    /\ (pc = "fp_resolve") => (Len(handles) >= 1)
    /\ (/\ op = "first_protocol"
        /\ pc = "idle"
        /\ Len(calls) >= 2
        /\ calls[2].fn = "locate_handle"
        /\ calls[2].status = SUCCESS)
       => (Len(calls) = 3 /\ calls[3].fn = "handle_protocol")

\* C24: raise_tpl and restore_tpl are pass-throughs: raise_tpl(l) hands l to
\* the firmware and returns the level that was current before the call,
\* restore_tpl(old) hands old to the firmware unchanged even when it is out
\* of order, and after a strictly nested sequence of raise_tpl /
\* restore_tpl(previous) pairs the firmware's level is the level before the
\* sequence.
C24_TplPassThrough ==
    /\ (op = "raise_tpl")
       => /\ calls = <<CallNoStatus("raise_tpl", args.tpl)>>
          /\ ret = Val(tplBefore)
          /\ fwTpl = args.tpl
    /\ (op = "restore_tpl")
       => /\ calls = <<CallNoStatus("restore_tpl", args.old)>>
          /\ fwTpl = args.old
    /\ (tplNested /\ tplSaved = <<>>) => (fwTpl = tplBase)
    /\ (tplNested /\ tplSaved # <<>>) => (tplSaved[1] = tplBase)

\* a raise from the starting level has been undone by restoring the level it returned
C24_Witness ==
    /\ op = "restore_tpl"
    /\ tplNested
    /\ tplSaved = <<>>
    /\ tplBase = CALLBACK
    /\ tplBefore = NOTIFY
    /\ args.old = CALLBACK
    /\ fwTpl = CALLBACK

\* C25: output_string and test_string hand the firmware only a
\* null-terminated string: a slice with no 0 code unit halts the program
\* before any firmware call and returns no Status; a slice with a 0 code unit
\* makes exactly one firmware call, whose status is converted with to_result.
C25_NullTerminatedOnly ==
    (op \in {"output_string", "test_string"})
    => IF \A i \in 1..Len(args.s) : args.s[i] # 0
       THEN ret = Panic /\ halted /\ calls = <<>>
       ELSE /\ Len(calls) = 1
            /\ calls[1].fn = op
            /\ calls[1].arg = args.s
            /\ ret = to_result(calls[1].status, Unit)
            /\ ~halted

C25_Witness ==
    /\ op = "output_string"
    /\ Len(args.s) = MaxStrLen
    /\ \A i \in 1..Len(args.s) : args.s[i] # 0
    /\ fwOverride = NoOverride
    /\ ret = Panic
    /\ calls = <<>>

\* C26: query_mode returns Ok only if the firmware returned SUCCESS and
\* reported an info size of at least the size of ModeInfo; SUCCESS with a
\* smaller size halts the program, and a non-success status is returned as
\* Err with that status, whatever the size.
C26_QueryModeSizeChecked ==
    (op = "query_mode")
    => /\ Len(calls) = 1
       /\ (ret.kind = "Ok")
          <=> (calls[1].status = SUCCESS /\ calls[1].size >= SIZE_OF_MODE_INFO)
       /\ (calls[1].status = SUCCESS /\ calls[1].size < SIZE_OF_MODE_INFO)
          => (ret = Panic /\ halted)
       /\ (calls[1].status # SUCCESS) => (ret = Err(calls[1].status) /\ ~halted)

\* the firmware reported four bytes less than a ModeInfo
C26_Witness ==
    /\ op = "query_mode"
    /\ fwOverride = NoOverride
    /\ calls[1].status = SUCCESS
    /\ calls[1].size = SIZE_OF_MODE_INFO - 4
    /\ ret = Panic
    /\ halted

\* C30: for every max_mode, 0 included, the iterator of all_modes terminates
\* and yields exactly max_mode items, the modes 0, 1, ..., max_mode - 1 in
\* ascending order, and no arithmetic in it underflows or overflows.
C30_AllModesExact ==
    /\ (op = "all_modes") => (ret # Panic)
    /\ (ipc # "none")
       => /\ Len(yielded) <= max_mode.lo
          /\ \A i \in 1..Len(yielded) : yielded[i].mode = U32(i - 1)
    /\ (ipc = "done") => (Len(yielded) = max_mode.lo)
    /\ (ipc # "none" /\ next_calls > max_mode.lo) => (ipc = "done")

====
